---- MODULE Spec2Model ----
(***************************************************************************)
(* A model of semverlint: the API diff engine (diff.go), the change tree   *)
(* and its breaking-change classifier (change.go) and the version ordering *)
(* (api.go).                                                               *)
(*                                                                         *)
(* Diff and its helpers range over Go maps, whose iteration order is       *)
(* unspecified.  Each function that ranges over a map is therefore modelled*)
(* as the SET of values it can return, one per iteration order.            *)
(***************************************************************************)
EXTENDS Integers, Sequences, FiniteSets, TLC

VARIABLES
    pc,        \* position: "ready", "done", "again"; "outer", "inner" in the sort
    current,   \* Diff: the current API snapshot (sequence of Package)
    prev,      \* Diff: the previous API snapshot
    changes,   \* Diff: the APIChanges returned by the latest call
    previous,  \* Diff: the APIChanges returned by the call before the latest
    change,    \* IsBreaking: the Change it is called with
    breaking,  \* IsBreaking: its return value
    ta, tb,    \* typesEqual: the two type descriptors
    eq,        \* typesEqual: its return value
    input,     \* Versions: the list as collected, before the sort
    result,    \* Versions: the list being sorted in place
    i, j       \* sort.Stable: the insertion sort's loop indices

vars == <<pc, current, prev, changes, previous, change, breaking,
          ta, tb, eq, input, result, i, j>>

diffVars  == <<current, prev, changes, previous>>
breakVars == <<change, breaking>>
typeVars  == <<ta, tb, eq>>
sortVars  == <<input, result, i, j>>

(***************************************************************************)
(* Bounds of the model.                                                    *)
(***************************************************************************)
MaxDecls == 2   \* declarations in the two snapshots of one Diff call, in all
MaxNodes == 3   \* nodes of a change tree handed to IsBreaking
TypeDepth == 2  \* nesting depth of a type descriptor handed to typesEqual
MaxTags == 3    \* semantic-version tags beside HEAD in a version list

(***************************************************************************)
(* Generic helpers.                                                        *)
(***************************************************************************)
RECURSIVE flatten(_)
flatten(ss) == IF ss = <<>> THEN <<>> ELSE Head(ss) \o flatten(Tail(ss))

\* The orders in which a range over a map with key set S can visit its keys.
Orders(S) ==
    IF S = {} THEN {<<>>}
    ELSE {o \in [1..Cardinality(S) -> S] :
            \A a, b \in 1..Cardinality(S) : a # b => o[a] # o[b]}

\* All ways to pick one element from each set of a sequence of sets.
RECURSIVE SeqProduct(_)
SeqProduct(sets) ==
    IF sets = <<>> THEN {<<>>}
    ELSE {<<h>> \o t : h \in Head(sets), t \in SeqProduct(Tail(sets))}

\* The subsets of X with at most k elements.
RECURSIVE SubsetsUpTo(_, _)
SubsetsUpTo(X, k) ==
    IF k = 0 THEN {{}}
    ELSE LET smaller == SubsetsUpTo(X, k - 1)
         IN  smaller \cup {s \cup {x} : s \in smaller, x \in X}

(***************************************************************************)
(* go/types type descriptors, as far as the model needs them: named types, *)
(* pointers and slices; NilType is the nil interface value of a zero       *)
(* declaration.                                                            *)
(***************************************************************************)
Named(n)   == [kind |-> "named",   name |-> n,  elem |-> <<>>]
Pointer(t) == [kind |-> "pointer", name |-> "", elem |-> <<t>>]
Slice(t)   == [kind |-> "slice",   name |-> "", elem |-> <<t>>]
NilType    == [kind |-> "nil",     name |-> "", elem |-> <<>>]

\* diff.go:294  func typesEqual(a, b types.Type) bool { return false }
typesEqual(a, b) == FALSE

(***************************************************************************)
(* change.go: the change tree.                                             *)
(***************************************************************************)
VarType == 0
ConstType == 1
FuncType == 2
InterfaceType == 3
StructType == 4
TypeDefType == 5
PackageType == 6

Removed == [tag |-> "Removed"]
Added   == [tag |-> "Added"]
TypeChanged(from, to)     == [tag |-> "TypeChanged", From |-> from, To |-> to]
ValueChanged(from, to)    == [tag |-> "ValueChanged", From |-> from, To |-> to]
PositionChanged(from, to) == [tag |-> "PositionChanged", From |-> from, To |-> to]
FieldChanged(pos, name, cs) ==
    [tag |-> "FieldChanged", Pos |-> pos, Name |-> name, Changes |-> cs]
ArgumentChanged(pos, name, typ, cs) ==
    [tag |-> "ArgumentChanged", Pos |-> pos, Name |-> name, Type |-> typ,
     Changes |-> cs]
ResultChanged(pos, typ, cs) ==
    [tag |-> "ResultChanged", Pos |-> pos, Type |-> typ, Changes |-> cs]

\* NewDeclChange(name, typ, changes...): cs is the variadic argument list.
NewDeclChange(name, typ, cs) ==
    [tag |-> "DeclChange", Name |-> name, Type |-> typ, Changes |-> cs]

NewPackageChanges(name, path, cs) ==
    [Name |-> name, Path |-> path, Changes |-> cs]

(***************************************************************************)
(* change.go:159  IsBreaking.  breakingLoop is the for loop of the         *)
(* DeclChange case: it returns at the first breaking child, and a loop     *)
(* that finds none falls through to the final return false.                *)
(***************************************************************************)
RECURSIVE IsBreakingFirstChildOnly(_)
IsBreakingFirstChildOnly(c) ==
    IF c.tag \in {"Removed", "PositionChanged", "TypeChanged",
                  "FieldChanged", "ResultChanged", "ArgumentChanged"}
    THEN TRUE
    ELSE IF c.tag = "DeclChange"
         THEN c.Changes # <<>> /\ IsBreakingFirstChildOnly(Head(c.Changes))
         ELSE FALSE

RECURSIVE IsBreaking(_)
RECURSIVE breakingLoop(_)
breakingLoop(cs) ==
    IF cs = <<>> THEN FALSE
    ELSE IF IsBreaking(Head(cs)) THEN TRUE
    ELSE breakingLoop(Tail(cs))

IsBreaking(c) ==
    IF c.tag \in {"Removed", "PositionChanged", "TypeChanged",
                  "FieldChanged", "ResultChanged", "ArgumentChanged"}
    THEN TRUE
    ELSE IF c.tag = "DeclChange" THEN breakingLoop(c.Changes)
    ELSE FALSE

(***************************************************************************)
(* api.go: the API model.  The zero values are what a failed map lookup    *)
(* (v2, ok := m[name] with ok false) leaves in v2.                         *)
(***************************************************************************)
Field(name, typ) == [Name |-> name, Type |-> typ]
Func(name, args, ret) == [Name |-> name, Args |-> args, Return |-> ret]

ZeroConst   == [Name |-> "", Type |-> NilType, Value |-> ""]
ZeroTypeDef == [Name |-> "", Type |-> NilType, Alias |-> FALSE]

(***************************************************************************)
(* diff.go:238-292  the name-keyed indices: a later entry with the same    *)
(* key overwrites an earlier one.                                          *)
(***************************************************************************)
lastNamed(xs, k) ==
    xs[CHOOSE n \in DOMAIN xs :
          /\ xs[n].Name = k
          /\ \A m \in DOMAIN xs : xs[m].Name = k => m <= n]

lastAtPath(a, k) ==
    a[CHOOSE n \in DOMAIN a :
          /\ a[n].Path = k
          /\ \A m \in DOMAIN a : a[m].Path = k => m <= n]

packagesIndex(a) ==
    [k \in {a[n].Path : n \in DOMAIN a} |-> lastAtPath(a, k)]
constsIndex(xs) ==
    [k \in {xs[n].Name : n \in DOMAIN xs} |-> lastNamed(xs, k)]
varsIndex(xs) ==
    [k \in {xs[n].Name : n \in DOMAIN xs} |-> lastNamed(xs, k)]
funcsIndex(xs) ==
    [k \in {xs[n].Name : n \in DOMAIN xs} |-> lastNamed(xs, k)]
interfacesIndex(xs) ==
    [k \in {xs[n].Name : n \in DOMAIN xs} |-> lastNamed(xs, k)]
structsIndex(xs) ==
    [k \in {xs[n].Name : n \in DOMAIN xs} |-> lastNamed(xs, k)]
typesIndex(xs) ==
    [k \in {xs[n].Name : n \in DOMAIN xs} |-> lastNamed(xs, k)]

(***************************************************************************)
(* The two loops every category diff consists of.  The first ranges over   *)
(* the index of its first argument in the order o1 and appends what        *)
(* entry(name) yields; when it ends, seen holds every key of that index.   *)
(* The second ranges over the index of its second argument in the order o2 *)
(* and appends an Added change for every name not in seen.                 *)
(***************************************************************************)
addedEntry(name, seen, typ) ==
    IF name \notin seen THEN <<NewDeclChange(name, typ, <<Added>>)>> ELSE <<>>

\* diff.go:61-81  one iteration of constsDiff's first loop.  A name missing
\* from currentConsts appends Removed and goes on to the two comparisons,
\* made against the zero Const.
constsEntry(name, prevConsts, currentConsts) ==
    LET v  == prevConsts[name]
        ok == name \in DOMAIN currentConsts
        v2 == IF ok THEN currentConsts[name] ELSE ZeroConst
    IN  (IF ~ok THEN <<NewDeclChange(name, ConstType, <<Removed>>)>> ELSE <<>>)
        \o (IF ~typesEqual(v.Type, v2.Type)
            THEN <<NewDeclChange(name, ConstType,
                                 <<TypeChanged(v.Type, v2.Type)>>)>>
            ELSE <<>>)
        \o (IF v.Value # v2.Value
            THEN <<NewDeclChange(name, ConstType,
                                 <<ValueChanged(v.Value, v2.Value)>>)>>
            ELSE <<>>)

\* diff.go:55
constsDiff(prevL, currentL) ==
    LET currentConsts == constsIndex(currentL)
        prevConsts    == constsIndex(prevL)
        entry(name)   == constsEntry(name, prevConsts, currentConsts)
        added(name)   == addedEntry(name, DOMAIN prevConsts, ConstType)
    IN  {flatten([k \in DOMAIN o1 |-> entry(o1[k])])
            \o flatten([k \in DOMAIN o2 |-> added(o2[k])]) :
            o1 \in Orders(DOMAIN prevConsts),
            o2 \in Orders(DOMAIN currentConsts)}

\* diff.go:98-109  one iteration of varsDiff's first loop (if / else if).
varsEntry(name, prevVars, currentVars) ==
    LET v  == prevVars[name]
        ok == name \in DOMAIN currentVars
    IN  IF ~ok THEN <<NewDeclChange(name, VarType, <<Removed>>)>>
        ELSE IF ~typesEqual(v.Type, currentVars[name].Type)
        THEN <<NewDeclChange(name, VarType,
                             <<TypeChanged(v.Type, currentVars[name].Type)>>)>>
        ELSE <<>>

\* diff.go:92
varsDiff(prevL, currentL) ==
    LET currentVars == varsIndex(currentL)
        prevVars    == varsIndex(prevL)
        entry(name) == varsEntry(name, prevVars, currentVars)
        added(name) == addedEntry(name, DOMAIN prevVars, VarType)
    IN  {flatten([k \in DOMAIN o1 |-> entry(o1[k])])
            \o flatten([k \in DOMAIN o2 |-> added(o2[k])]) :
            o1 \in Orders(DOMAIN prevVars),
            o2 \in Orders(DOMAIN currentVars)}

\* diff.go:126-139, 156-169, 186-197  one iteration of the first loop of
\* funcsDiff, structsDiff and interfacesDiff: Removed for a missing name,
\* and nothing else (arguments, results, fields and methods are TODOs).
removedEntry(name, currentIdx, typ) ==
    IF name \notin DOMAIN currentIdx
    THEN <<NewDeclChange(name, typ, <<Removed>>)>>
    ELSE <<>>

\* diff.go:120
funcsDiff(prevL, currentL) ==
    LET currentFuncs == funcsIndex(currentL)
        prevFuncs    == funcsIndex(prevL)
        entry(name)  == removedEntry(name, currentFuncs, FuncType)
        added(name)  == addedEntry(name, DOMAIN prevFuncs, FuncType)
    IN  {flatten([k \in DOMAIN o1 |-> entry(o1[k])])
            \o flatten([k \in DOMAIN o2 |-> added(o2[k])]) :
            o1 \in Orders(DOMAIN prevFuncs),
            o2 \in Orders(DOMAIN currentFuncs)}

\* diff.go:150
structsDiff(prevL, currentL) ==
    LET currentStructs == structsIndex(currentL)
        prevStructs    == structsIndex(prevL)
        entry(name)    == removedEntry(name, currentStructs, StructType)
        added(name)    == addedEntry(name, DOMAIN prevStructs, StructType)
    IN  {flatten([k \in DOMAIN o1 |-> entry(o1[k])])
            \o flatten([k \in DOMAIN o2 |-> added(o2[k])]) :
            o1 \in Orders(DOMAIN prevStructs),
            o2 \in Orders(DOMAIN currentStructs)}

\* diff.go:180
interfacesDiff(prevL, currentL) ==
    LET currentInterfaces == interfacesIndex(currentL)
        prevInterfaces    == interfacesIndex(prevL)
        entry(name)       == removedEntry(name, currentInterfaces, InterfaceType)
        added(name)       == addedEntry(name, DOMAIN prevInterfaces,
                                        InterfaceType)
    IN  {flatten([k \in DOMAIN o1 |-> entry(o1[k])])
            \o flatten([k \in DOMAIN o2 |-> added(o2[k])]) :
            o1 \in Orders(DOMAIN prevInterfaces),
            o2 \in Orders(DOMAIN currentInterfaces)}

\* diff.go:214-227  one iteration of typesDiff's first loop: like
\* constsDiff's, Removed does not skip the type comparison.
typesEntry(name, prevTypes, currentTypes) ==
    LET v  == prevTypes[name]
        ok == name \in DOMAIN currentTypes
        v2 == IF ok THEN currentTypes[name] ELSE ZeroTypeDef
    IN  (IF ~ok THEN <<NewDeclChange(name, TypeDefType, <<Removed>>)>> ELSE <<>>)
        \o (IF ~typesEqual(v.Type, v2.Type)
            THEN <<NewDeclChange(name, TypeDefType,
                                 <<TypeChanged(v.Type, v2.Type)>>)>>
            ELSE <<>>)

\* diff.go:208
typesDiff(prevL, currentL) ==
    LET currentTypes == typesIndex(currentL)
        prevTypes    == typesIndex(prevL)
        entry(name)  == typesEntry(name, prevTypes, currentTypes)
        added(name)  == addedEntry(name, DOMAIN prevTypes, TypeDefType)
    IN  {flatten([k \in DOMAIN o1 |-> entry(o1[k])])
            \o flatten([k \in DOMAIN o2 |-> added(o2[k])]) :
            o1 \in Orders(DOMAIN prevTypes),
            o2 \in Orders(DOMAIN currentTypes)}

\* diff.go:40  packageDiff(prev, current Package): the six category diffs,
\* appended in this fixed order; Path and Name are its second argument's.
packageDiff(prevP, currentP) ==
    {[Path |-> currentP.Path, Name |-> currentP.Name,
      Changes |-> flatten(cs)] :
        cs \in SeqProduct(<<constsDiff(prevP.Consts, currentP.Consts),
                            varsDiff(prevP.Vars, currentP.Vars),
                            funcsDiff(prevP.Funcs, currentP.Funcs),
                            structsDiff(prevP.Structs, currentP.Structs),
                            interfacesDiff(prevP.Interfaces, currentP.Interfaces),
                            typesDiff(prevP.Types, currentP.Types)>>)}

\* diff.go:16-19  the entry of a package of prev that current lacks.
\* (removedPackageFromP2 reads the failed lookup's zero Package instead.)
removedPackageFromP2(p1) ==
    NewPackageChanges("", "", <<NewDeclChange("", PackageType, <<Removed>>)>>)

removedPackage(p1) ==
    NewPackageChanges(p1.Name, p1.Path,
                      <<NewDeclChange(p1.Name, PackageType, <<Removed>>)>>)

\* diff.go:30-33  the entry of a package of current that prev lacks.
addedPackage(p) ==
    NewPackageChanges(p.Name, p.Path,
                      <<NewDeclChange(p.Name, PackageType, <<Added>>)>>)

\* diff.go:12-24  one iteration of Diff's first loop, over prevPkgs: the
\* values it can append.  The call is packageDiff(p2, p1), current's package
\* first, although packageDiff takes (prev, current).
diffEntry(path, prevPkgs, currentPkgs) ==
    LET p1 == prevPkgs[path]
    IN  IF path \notin DOMAIN currentPkgs
        THEN {removedPackage(p1)}
        ELSE packageDiff(currentPkgs[path], p1)

\* diff.go:6  Diff(current, prev API): the APIChanges it can return.
Diff(currentA, prevA) ==
    LET currentPkgs == packagesIndex(currentA)
        prevPkgs    == packagesIndex(prevA)
        seen        == DOMAIN prevPkgs
        new(path)   == IF path \notin seen
                       THEN <<addedPackage(currentPkgs[path])>> ELSE <<>>
    IN  UNION {
          {first \o flatten([k \in DOMAIN o2 |-> new(o2[k])]) :
              first \in SeqProduct([k \in DOMAIN o1 |->
                                     diffEntry(o1[k], prevPkgs, currentPkgs)])} :
          o1 \in Orders(DOMAIN prevPkgs), o2 \in Orders(DOMAIN currentPkgs)}

(***************************************************************************)
(* The snapshots Diff is called with.  A package's declaration lists come  *)
(* from packageFromGoPackage (api.go:186), which walks scope.Names(), a    *)
(* sorted list of distinct names: every list is sorted by name and holds   *)
(* each name once.  ProjectAPI (api.go:111) appends one package per loaded *)
(* directory, and projectDirs sorts those: a snapshot holds each path once,*)
(* in sorted order.                                                        *)
(***************************************************************************)
NameSeq == <<"A", "B">>
PathSeq == <<"x/p", "x/q">>
Paths   == {PathSeq[n] : n \in DOMAIN PathSeq}
packageName(path) == IF path = "x/p" THEN "p" ELSE "q"

IntT == Named("int")
StrT == Named("string")
Values == {"1", "2"}

Kinds == {VarType, ConstType, FuncType, InterfaceType, StructType, TypeDefType}

\* The declarations of a kind that a package can hold.  Variables have two
\* names, so that a range over an index has more than one order; struct
\* fields come in both orders.
Decls(kind) ==
    CASE kind = ConstType ->
            [Name : {"A"}, Type : {IntT, StrT}, Value : Values]
      [] kind = VarType ->
            [Name : {NameSeq[n] : n \in DOMAIN NameSeq}, Type : {IntT, StrT}]
      [] kind = FuncType ->
            [Name : {"A"}, Args : {<<IntT>>}, Return : {<<>>}]
      [] kind = StructType ->
            [Name : {"A"},
             Fields : {<<Field("A", IntT), Field("B", StrT)>>,
                       <<Field("B", StrT), Field("A", IntT)>>},
             Methods : {<<>>}]
      [] kind = InterfaceType ->
            [Name : {"A"}, Methods : {<<Func("M", <<>>, <<IntT>>)>>}]
      [] kind = TypeDefType ->
            [Name : {"A"}, Type : {IntT, StrT}, Alias : {FALSE}]

\* A placement <<side, path, kind, decl>> puts one declaration into the
\* package at path of the snapshot side ("prev" or "current").
Placements(prevPaths, currentPaths) ==
    UNION {{<<s[1], s[2], k, d>> :
              s \in ({"prev"} \X prevPaths) \cup ({"current"} \X currentPaths),
              d \in Decls(k)} : k \in Kinds}

\* No two placements give one package two declarations of a kind and name.
Distinct(items) ==
    \A a, b \in items :
        (a # b /\ a[1] = b[1] /\ a[2] = b[2] /\ a[3] = b[3])
            => a[4].Name # b[4].Name

listOf(items, side, path, kind) ==
    LET mine  == {it \in items : it[1] = side /\ it[2] = path /\ it[3] = kind}
        names == SelectSeq(NameSeq, LAMBDA n : \E it \in mine : it[4].Name = n)
    IN  IF names = <<>> THEN <<>>
        ELSE [k \in DOMAIN names |->
                (CHOOSE it \in mine : it[4].Name = names[k])[4]]

\* api.go:272  type Package
Package(items, side, path) ==
    [Name       |-> packageName(path),
     Path       |-> path,
     Vars       |-> listOf(items, side, path, VarType),
     Consts     |-> listOf(items, side, path, ConstType),
     Funcs      |-> listOf(items, side, path, FuncType),
     Structs    |-> listOf(items, side, path, StructType),
     Interfaces |-> listOf(items, side, path, InterfaceType),
     Types      |-> listOf(items, side, path, TypeDefType)]

\* api.go:102  type API []Package
API(items, side, paths) ==
    LET ps == SelectSeq(PathSeq, LAMBDA q : q \in paths)
    IN  IF ps = <<>> THEN <<>>
        ELSE [k \in DOMAIN ps |-> Package(items, side, ps[k])]

(***************************************************************************)
(* Specification Spec: calls of Diff on one pair of snapshots.             *)
(***************************************************************************)
IdleDiff  == current = <<>> /\ prev = <<>> /\ changes = <<>> /\ previous = <<>>
IdleBreak == change = Removed /\ breaking = FALSE
IdleTypes == ta = NilType /\ tb = NilType /\ eq = FALSE
IdleSort  == input = <<>> /\ result = <<>> /\ i = 0 /\ j = 0

Init ==
    /\ pc = "ready"
    /\ \E prevPaths \in SUBSET Paths, currentPaths \in SUBSET Paths :
         \E items \in SubsetsUpTo(Placements(prevPaths, currentPaths), MaxDecls) :
            /\ Distinct(items)
            /\ prev = API(items, "prev", prevPaths)
            /\ current = API(items, "current", currentPaths)
    /\ changes = <<>>
    /\ previous = <<>>
    /\ IdleBreak /\ IdleTypes /\ IdleSort

\* A call changes := Diff(current, prev).  The caller makes two, and keeps
\* the value of the first in previous; pc is "done" after the first call
\* and "again" after the second.
CallDiff ==
    /\ pc \in {"ready", "done"}
    /\ \E r \in Diff(current, prev) : changes' = r
    /\ previous' = changes
    /\ pc' = IF pc = "ready" THEN "done" ELSE "again"
    /\ UNCHANGED <<current, prev, breakVars, typeVars, sortVars>>

Next == CallDiff

Spec == Init /\ [][Next]_vars

(***************************************************************************)
(* Reading the snapshots and the returned APIChanges.                      *)
(***************************************************************************)
Called == pc \in {"done", "again"}

pathsOf(api) == {api[n].Path : n \in DOMAIN api}
pkgOf(api, path) == api[CHOOSE n \in DOMAIN api : api[n].Path = path]

declsOf(pkg, kind) ==
    CASE kind = VarType -> pkg.Vars
      [] kind = ConstType -> pkg.Consts
      [] kind = FuncType -> pkg.Funcs
      [] kind = InterfaceType -> pkg.Interfaces
      [] kind = StructType -> pkg.Structs
      [] kind = TypeDefType -> pkg.Types

namesOf(pkg, kind) ==
    LET ds == declsOf(pkg, kind) IN {ds[n].Name : n \in DOMAIN ds}
declOf(pkg, kind, name) ==
    LET ds == declsOf(pkg, kind) IN ds[CHOOSE n \in DOMAIN ds : ds[n].Name = name]

\* The PackageChanges entries of the result that carry the path.
entriesFor(path) == SelectSeq(changes, LAMBDA e : e.Path = path)

\* The changes the result holds, under the path, for a declaration.
changesFor(path, kind, name) ==
    LET es == entriesFor(path)
    IN  SelectSeq(flatten([k \in DOMAIN es |-> es[k].Changes]),
                  LAMBDA c : /\ c.tag = "DeclChange"
                             /\ c.Name = name
                             /\ c.Type = kind)

SharedPaths == pathsOf(prev) \cap pathsOf(current)

(***************************************************************************)
(* C1. Reflexivity: Diff(S, S) returns, for every package of S, a          *)
(* PackageChanges whose Changes list is empty.                             *)
(***************************************************************************)
C1_Reflexivity ==
    (Called /\ current = prev) =>
        /\ \A path \in pathsOf(prev) : entriesFor(path) # <<>>
        /\ \A k \in DOMAIN changes : changes[k].Changes = <<>>

(***************************************************************************)
(* C2. Removal classification: in a package of both snapshots, a           *)
(* declaration of prev that current lacks yields exactly one change for    *)
(* its name, DeclChange(name, kind, [Removed]), and that change is         *)
(* breaking.                                                               *)
(***************************************************************************)
C2_RemovalClassification ==
    Called =>
        \A path \in SharedPaths : \A kind \in Kinds :
            \A name \in namesOf(pkgOf(prev, path), kind)
                        \ namesOf(pkgOf(current, path), kind) :
                /\ changesFor(path, kind, name)
                       = <<NewDeclChange(name, kind, <<Removed>>)>>
                /\ IsBreaking(changesFor(path, kind, name)[1])

(***************************************************************************)
(* C3. Addition classification: in a package of both snapshots, a          *)
(* declaration of current that prev lacks yields exactly one change for    *)
(* its name, DeclChange(name, kind, [Added]), and that change is not       *)
(* breaking.                                                               *)
(***************************************************************************)
C3_AdditionClassification ==
    Called =>
        \A path \in SharedPaths : \A kind \in Kinds :
            \A name \in namesOf(pkgOf(current, path), kind)
                        \ namesOf(pkgOf(prev, path), kind) :
                /\ changesFor(path, kind, name)
                       = <<NewDeclChange(name, kind, <<Added>>)>>
                /\ ~IsBreaking(changesFor(path, kind, name)[1])

(***************************************************************************)
(* C5. Value-only constant change: a constant of both snapshots with the   *)
(* same type and another value yields only a ValueChanged from the prev    *)
(* value to the current value, in a DeclChange that is not breaking.       *)
(***************************************************************************)
C5_ValueOnlyChange ==
    Called =>
        \A path \in SharedPaths :
            \A name \in namesOf(pkgOf(prev, path), ConstType)
                        \cap namesOf(pkgOf(current, path), ConstType) :
                LET old == declOf(pkgOf(prev, path), ConstType, name)
                    new == declOf(pkgOf(current, path), ConstType, name)
                    cs  == changesFor(path, ConstType, name)
                IN  (old.Type = new.Type /\ old.Value # new.Value) =>
                        /\ cs = <<NewDeclChange(name, ConstType,
                                    <<ValueChanged(old.Value, new.Value)>>)>>
                        /\ ~IsBreaking(cs[1])

(***************************************************************************)
(* C6. Package removal: a package of prev whose path current lacks yields  *)
(* exactly one PackageChanges, with the package's name and path and the    *)
(* single change DeclChange(name, package, [Removed]); and the result      *)
(* holds exactly one PackageChanges per path of either snapshot.           *)
(***************************************************************************)
C6_PackageRemoval ==
    Called =>
        /\ \A path \in pathsOf(prev) \ pathsOf(current) :
              entriesFor(path) =
                <<[Name |-> pkgOf(prev, path).Name,
                   Path |-> path,
                   Changes |-> <<[tag |-> "DeclChange",
                                  Name |-> pkgOf(prev, path).Name,
                                  Type |-> PackageType,
                                  Changes |-> <<[tag |-> "Removed"]>>]>>]>>
        /\ \A path \in pathsOf(prev) \cup pathsOf(current) :
              Len(entriesFor(path)) = 1
        /\ Len(changes) = Cardinality(pathsOf(prev) \cup pathsOf(current))

\* A removed package that held declarations, beside a package that stayed.
C6_Witness ==
    /\ Called
    /\ \E path \in pathsOf(prev) \ pathsOf(current) :
          /\ pkgOf(prev, path).Vars # <<>>
          /\ entriesFor(path) # <<>>
    /\ SharedPaths # {}

(***************************************************************************)
(* C7. Determinism: every execution of Diff on one pair of snapshots       *)
(* returns the same APIChanges: two calls agree.                           *)
(***************************************************************************)
C7_Determinism == (pc = "again") => changes = previous

(***************************************************************************)
(* C8. Field reorder detection: a struct of both snapshots with the same   *)
(* fields in another order yields a breaking DeclChange that holds, for    *)
(* each moved field, a FieldChanged with PositionChanged(old, new)         *)
(* (positions counted from 0).                                             *)
(***************************************************************************)
C8_FieldReorder ==
    Called =>
        \A path \in SharedPaths :
            \A name \in namesOf(pkgOf(prev, path), StructType)
                        \cap namesOf(pkgOf(current, path), StructType) :
                LET old == declOf(pkgOf(prev, path), StructType, name).Fields
                    new == declOf(pkgOf(current, path), StructType, name).Fields
                    cs  == changesFor(path, StructType, name)
                IN  ({old[n] : n \in DOMAIN old} = {new[n] : n \in DOMAIN new}
                     /\ old # new) =>
                        /\ Len(cs) = 1
                        /\ IsBreaking(cs[1])
                        /\ \A m \in DOMAIN old, n \in DOMAIN new :
                              (old[m] = new[n] /\ m # n) =>
                                 \E k \in DOMAIN cs[1].Changes :
                                    LET f == cs[1].Changes[k]
                                    IN  /\ f.tag = "FieldChanged"
                                        /\ f.Name = old[m].Name
                                        /\ \E g \in DOMAIN f.Changes :
                                              f.Changes[g] =
                                                PositionChanged(m - 1, n - 1)

(***************************************************************************)
(* Specification SpecBreaking: one call of IsBreaking on a change tree of  *)
(* at most MaxNodes nodes.  The fields IsBreaking does not read (names,    *)
(* positions, types, values) take one value each.                          *)
(***************************************************************************)
LeafChanges ==
    {Removed, Added, TypeChanged(IntT, StrT), ValueChanged("1", "2"),
     PositionChanged(0, 1)}

nodesOver(cs) ==
    {FieldChanged(0, "A", cs), ArgumentChanged(0, "a", IntT, cs),
     ResultChanged(0, IntT, cs), NewDeclChange("A", StructType, cs)}

RECURSIVE TreesOfSize(_)
RECURSIVE ForestsOfSize(_)
TreesOfSize(n) ==
    IF n = 0 THEN {}
    ELSE (IF n = 1 THEN LeafChanges ELSE {})
         \cup UNION {nodesOver(f) : f \in ForestsOfSize(n - 1)}

ForestsOfSize(m) ==
    IF m = 0 THEN {<<>>}
    ELSE UNION {{<<t>> \o f : t \in TreesOfSize(k), f \in ForestsOfSize(m - k)} :
                  k \in 1..m}

InitBreaking ==
    /\ pc = "ready"
    /\ change \in UNION {TreesOfSize(n) : n \in 1..MaxNodes}
    /\ breaking = FALSE
    /\ IdleDiff /\ IdleTypes /\ IdleSort

CallIsBreaking ==
    /\ pc = "ready"
    /\ breaking' = IsBreaking(change)
    /\ pc' = "done"
    /\ UNCHANGED <<change, diffVars, typeVars, sortVars>>

NextBreaking == CallIsBreaking

SpecBreaking == InitBreaking /\ [][NextBreaking]_vars

\* The rule of the specification: one of the six breaking kinds, or a
\* DeclChange with a breaking child.
RECURSIVE BreakingRule(_)
BreakingRule(c) ==
    \/ c.tag \in {"Removed", "PositionChanged", "TypeChanged", "FieldChanged",
                  "ResultChanged", "ArgumentChanged"}
    \/ /\ c.tag = "DeclChange"
       /\ \E k \in DOMAIN c.Changes : BreakingRule(c.Changes[k])

(***************************************************************************)
(* C4. IsBreaking is the recursive rule: true for Removed, PositionChanged,*)
(* TypeChanged, FieldChanged, ResultChanged and ArgumentChanged, false for *)
(* Added and ValueChanged, and for a DeclChange true iff some child is     *)
(* breaking.                                                               *)
(***************************************************************************)
C4_IsBreakingRule ==
    (pc = "done") =>
        /\ breaking = BreakingRule(change)
        /\ change.tag \in {"Added", "ValueChanged"} => ~breaking
        /\ (change.tag = "DeclChange" /\ change.Changes = <<>>) => ~breaking

\* A DeclChange that is breaking through a child that is not its first.
C4_Witness ==
    /\ pc = "done"
    /\ change.tag = "DeclChange"
    /\ Len(change.Changes) >= 2
    /\ Head(change.Changes).tag \in {"Added", "ValueChanged"}
    /\ breaking

(***************************************************************************)
(* Specification SpecTypes: one call of typesEqual on two type descriptors *)
(* nested at most TypeDepth deep.                                          *)
(***************************************************************************)
RECURSIVE TypesUpTo(_)
TypesUpTo(d) ==
    IF d = 0 THEN {Named("int"), Named("string"), Named("x/p.T")}
    ELSE LET s == TypesUpTo(d - 1)
         IN  s \cup {Pointer(t) : t \in s} \cup {Slice(t) : t \in s}

InitTypes ==
    /\ pc = "ready"
    /\ ta \in TypesUpTo(TypeDepth)
    /\ tb \in TypesUpTo(TypeDepth)
    /\ eq = FALSE
    /\ IdleDiff /\ IdleBreak /\ IdleSort

CallTypesEqual ==
    /\ pc = "ready"
    /\ eq' = typesEqual(ta, tb)
    /\ pc' = "done"
    /\ UNCHANGED <<ta, tb, diffVars, breakVars, sortVars>>

NextTypes == CallTypesEqual

SpecTypes == InitTypes /\ [][NextTypes]_vars

(***************************************************************************)
(* C9. Type identity: typesEqual is reflexive, symmetric, and false for    *)
(* two descriptors of different structural kinds.                          *)
(***************************************************************************)
C9_TypeIdentity ==
    (pc = "done") =>
        /\ (ta = tb) => eq
        /\ eq = typesEqual(tb, ta)
        /\ (ta.kind # tb.kind) => ~eq

(***************************************************************************)
(* api.go:80-99  byVersion, and the semver library it calls.  A version    *)
(* name parses to major, minor, patch and pre-release; a leading "v" is    *)
(* dropped and build metadata is not compared.  A release is greater than  *)
(* a pre-release of the same major.minor.patch.                            *)
(***************************************************************************)
TagNames == {"0.1.0", "v0.1.0", "0.2.0", "1.0.0-alpha", "1.0.0", "1.0.0+b1"}

V(major, minor, patch, pre) ==
    [Major |-> major, Minor |-> minor, Patch |-> patch, Pre |-> pre]

\* semver.MustParse (api.go:95-96)
MustParse(name) ==
    CASE name = "0.1.0"       -> V(0, 1, 0, "")
      [] name = "v0.1.0"      -> V(0, 1, 0, "")
      [] name = "0.2.0"       -> V(0, 2, 0, "")
      [] name = "1.0.0-alpha" -> V(1, 0, 0, "alpha")
      [] name = "1.0.0"       -> V(1, 0, 0, "")
      [] name = "1.0.0+b1"    -> V(1, 0, 0, "")

\* (*semver.Version).LessThan (api.go:98)
LessThan(v1, v2) ==
    IF v1.Major # v2.Major THEN v1.Major < v2.Major
    ELSE IF v1.Minor # v2.Minor THEN v1.Minor < v2.Minor
    ELSE IF v1.Patch # v2.Patch THEN v1.Patch < v2.Patch
    ELSE v1.Pre # "" /\ v2.Pre = ""

\* api.go:19  type Version; sorting does not read Commit, which is left out.
Version(name) == [Name |-> name]

\* api.go:84  (b byVersion) Less(i, j), with Go's indices from 0.
LessHeadInverted(b, m, n) ==
    IF b[m + 1].Name = "HEAD" THEN FALSE
    ELSE IF b[n + 1].Name = "HEAD" THEN TRUE
    ELSE LessThan(MustParse(b[m + 1].Name), MustParse(b[n + 1].Name))

Less(b, m, n) ==
    IF b[m + 1].Name = "HEAD" THEN TRUE
    ELSE IF b[n + 1].Name = "HEAD" THEN FALSE
    ELSE LessThan(MustParse(b[m + 1].Name), MustParse(b[n + 1].Name))

\* api.go:83  (b byVersion) Swap(i, j)
Swap(b, m, n) ==
    [b EXCEPT ![m + 1] = b[n + 1], ![n + 1] = b[m + 1]]

(***************************************************************************)
(* Specification SpecSort: sort.Stable(byVersion(result)) (api.go:76) on a *)
(* list of "HEAD" and at most MaxTags tags.  For fewer than 20 entries     *)
(* sort.Stable is one insertion sort:                                      *)
(*     for i := 1; i < n; i++ {                                            *)
(*         for j := i; j > 0 && Less(j, j-1); j-- { Swap(j, j-1) } }       *)
(***************************************************************************)
InitSort ==
    /\ pc = "ready"
    /\ \E tags \in SubsetsUpTo(TagNames, MaxTags) :
         \E o \in Orders(tags \cup {"HEAD"}) :
            input = [k \in DOMAIN o |-> Version(o[k])]
    /\ result = input
    /\ i = 0
    /\ j = 0
    /\ IdleDiff /\ IdleBreak /\ IdleTypes

StartSort ==
    /\ pc = "ready"
    /\ i' = 1
    /\ pc' = "outer"
    /\ UNCHANGED <<input, result, j, diffVars, breakVars, typeVars>>

OuterStep ==
    /\ pc = "outer"
    /\ i < Len(result)
    /\ j' = i
    /\ pc' = "inner"
    /\ UNCHANGED <<input, result, i, diffVars, breakVars, typeVars>>

OuterExit ==
    /\ pc = "outer"
    /\ ~(i < Len(result))
    /\ pc' = "done"
    /\ UNCHANGED <<input, result, i, j, diffVars, breakVars, typeVars>>

InnerSwap ==
    /\ pc = "inner"
    /\ j > 0 /\ Less(result, j, j - 1)
    /\ result' = Swap(result, j, j - 1)
    /\ j' = j - 1
    /\ UNCHANGED <<pc, input, i, diffVars, breakVars, typeVars>>

InnerExit ==
    /\ pc = "inner"
    /\ ~(j > 0 /\ Less(result, j, j - 1))
    /\ i' = i + 1
    /\ pc' = "outer"
    /\ UNCHANGED <<input, result, j, diffVars, breakVars, typeVars>>

NextSort == StartSort \/ OuterStep \/ OuterExit \/ InnerSwap \/ InnerExit

SpecSort == InitSort /\ [][NextSort]_vars

(***************************************************************************)
(* C10. Version ordering: after the sort, "HEAD" is the first entry and    *)
(* the entries after it are in non-decreasing semantic-version order (the  *)
(* sorted list holding the entries of the list as collected); and Less     *)
(* never orders a semantic version before "HEAD".                          *)
(***************************************************************************)
C10_VersionOrdering ==
    /\ (pc = "done") =>
          /\ result[1].Name = "HEAD"
          /\ \A m, n \in 2..Len(result) :
                m < n => ~LessThan(MustParse(result[n].Name),
                                   MustParse(result[m].Name))
          /\ Len(result) = Len(input)
          /\ {result[n] : n \in DOMAIN result} = {input[n] : n \in DOMAIN input}
    /\ \A m, n \in DOMAIN result :
          (result[m].Name # "HEAD" /\ result[n].Name = "HEAD")
              => ~Less(result, m - 1, n - 1)

\* A sorted list of at least three entries that was collected out of order,
\* with "HEAD" not in front.
C10_Witness ==
    /\ pc = "done"
    /\ Len(input) >= 3
    /\ input[1].Name # "HEAD"
    /\ result # input

====
